---- MODULE Spec2Model ----
(***************************************************************************)
(* cargo-crev, src/cargo-crev/src/deps.rs: the statistics types that are   *)
(* accumulated over a dependency tree (CountWithTotal, OwnerSetSet,        *)
(* AccumulativeCrateDetails) and the two consumers of the Scanner's stream *)
(* of CrateStats (verify_deps, crate_mvps), with the exit-code mapping of  *)
(* main.rs.                                                                *)
(*                                                                         *)
(* Option<T> is modelled as a sequence: None is <<>>, Some(x) is <<x>>.    *)
(* A HashMap is a function whose DOMAIN is its key set; a HashSet is a set.*)
(***************************************************************************)
EXTENDS FiniteSets, Integers, Sequences, TLC

VARIABLES
    a, b, c,            \* operands of AccumulativeCrateDetails `+`
    acc,                \* the running sum self + other (+ third)
    accStep,            \* how many `+` have been applied to acc
    oss, other,         \* operands of the OwnerSetSet operations
    ounion,             \* result of oss + other
    owners, groups,     \* results of to_total_owners / to_total_distinct_groups
    oStep,              \* position in the OwnerSetSet scenario
    events,             \* what the Scanner will yield, in order: Seq(CrateStats)
    scannerOk,          \* whether Scanner::new(&args) returns Ok
    isTty,              \* term.stderr_is_tty && term.stdout_is_tty
    termError,          \* a write to the terminal has returned an error
    command,            \* the subcommand run_command dispatches to
    pc,                 \* position in verify_deps / crate_mvps / main
    deps,               \* verify_deps: the collected Vec of stats
    rows,               \* ids handed to print_term::print_dep, in order
    nb_unclean_digests, nb_unverified,
    stdout,             \* lines printed with println!
    stderr,             \* lines printed with term.eprint
    cursor,             \* index of the loop that is running
    mvps,               \* crate_mvps: HashMap<PubId, u64>
    result,             \* what the command returned
    exitCode,           \* the process exit code main ends with
    graph,              \* the direct dependencies of every package of a graph
    own,                \* accumulative_own of every package of the graph
    memo                \* the finalized accumulative of the packages rolled up

accVars == <<a, b, c, acc, accStep>>
ossVars == <<oss, other, ounion, owners, groups, oStep>>
cmdVars == <<events, scannerOk, isTty, termError, command, pc, deps, rows, nb_unclean_digests,
             nb_unverified, stdout, stderr, cursor, mvps, result, exitCode>>
rollVars == <<graph, own, memo>>
vars == <<accVars, ossVars, cmdVars, rollVars>>

-----------------------------------------------------------------------------
(* Bounds of the model *)

MaxLoc == 1
MaxDeps == 3

-----------------------------------------------------------------------------
(* Option<T> *)

None == <<>>
Some(x) == <<x>>
IsSome(o) == o # <<>>
Unwrap(o) == o[1]

Min(x, y) == IF x <= y THEN x ELSE y

-----------------------------------------------------------------------------
(* CountWithTotal *)

CountWithTotal(count, total) == [count |-> count, total |-> total]

CountWithTotalAdd(self, rhs) ==
    [count |-> self.count + rhs.count, total |-> self.total + rhs.total]

-----------------------------------------------------------------------------
(* OwnerSetSet(HashMap<PackageId, HashSet<String>>) *)

PackageIds == {"P1", "P2", "P3"}
OwnerNames == {"x", "y", "z"}

\* HashMap::insert: the value of an existing key is replaced
MapInsert(m, k, v) == [x \in DOMAIN m \cup {k} |-> IF x = k THEN v ELSE m[x]]

OwnerSetSetNew(pkg_id, set) == MapInsert(<<>>, pkg_id, set)

EmptyOwnerSetSet == [p \in {} |-> {}]

\* the orders in which a HashMap with key set S can be iterated
Orders(S) ==
    {o \in [1..Cardinality(S) -> S] : \A i, j \in DOMAIN o : i # j => o[i] # o[j]}

\* for (k, v) in other.0 { set.insert(k, v); }
RECURSIVE InsertAll(_, _, _)
InsertAll(set, from, order) ==
    IF order = <<>> THEN set
    ELSE InsertAll(MapInsert(set, Head(order), from[Head(order)]), from, Tail(order))

OwnerSetSetAddKeepLeft(self, rhs) ==
    [p \in DOMAIN self \cup DOMAIN rhs |->
        IF p \in DOMAIN self THEN self[p] ELSE rhs[p]]

OwnerSetSetAdd(self, rhs) ==
    InsertAll(self, rhs, CHOOSE o \in Orders(DOMAIN rhs) : TRUE)

\* to_total_owners: every member of every set is collected into one HashSet
RECURSIVE CollectOwners(_, _, _)
CollectOwners(self, order, all_owners) ==
    IF order = <<>> THEN all_owners
    ELSE CollectOwners(self, Tail(order), all_owners \cup self[Head(order)])

RECURSIVE to_total_owners_per_group(_, _)
to_total_owners_per_group(self, order) ==
    IF order = <<>> THEN 0
    ELSE Cardinality(self[Head(order)]) + to_total_owners_per_group(self, Tail(order))

to_total_owners(self, order) == Cardinality(CollectOwners(self, order, {}))

\* group.iter().all(|member| other_group.contains(member))
AllContained(group, other_group) == \A member \in group : member \in other_group

\* the inner loop of to_total_distinct_groups from other_group_i on: TRUE when it
\* leaves through `continue 'outer`
RECURSIVE HasSuperSet(_, _, _, _)
HasSuperSet(self, order, group_i, other_group_i) ==
    IF other_group_i > Len(order) THEN FALSE
    ELSE IF group_i = other_group_i
         THEN HasSuperSet(self, order, group_i, other_group_i + 1)
         ELSE IF AllContained(self[order[group_i]], self[order[other_group_i]])
              THEN TRUE
              ELSE HasSuperSet(self, order, group_i, other_group_i + 1)

\* the outer loop of to_total_distinct_groups from group_i on
RECURSIVE CountGroups(_, _, _, _)
CountGroups(self, order, group_i, count) ==
    IF group_i > Len(order) THEN count
    ELSE IF HasSuperSet(self, order, group_i, 1)
         THEN CountGroups(self, order, group_i + 1, count)
         ELSE CountGroups(self, order, group_i + 1, count + 1)

to_total_distinct_groups_strict(self, order) ==
    Cardinality({i \in DOMAIN order :
        ~ \E j \in DOMAIN order :
            /\ AllContained(self[order[i]], self[order[j]])
            /\ self[order[i]] # self[order[j]]})

to_total_distinct_groups(self, order) == CountGroups(self, order, 1, 0)

-----------------------------------------------------------------------------
(* AccumulativeCrateDetails *)

\* VerificationStatus (crev_lib), by its rank in the derived ordering
VerificationStatus == {0, 1, 2}

sum_options_none_is_zero(x, y) ==
    IF IsSome(x) /\ IsSome(y) THEN Some(Unwrap(x) + Unwrap(y))
    ELSE IF IsSome(x) THEN x ELSE y

sum_options(x, y) ==
    IF IsSome(x) /\ IsSome(y) THEN Some(Unwrap(x) + Unwrap(y)) ELSE None

AccumulativeCrateDetailsAdd(self, rhs) ==
    [trust |-> Min(self.trust, rhs.trust),
     trusted_issues |-> CountWithTotalAdd(self.trusted_issues, rhs.trusted_issues),
     verified |-> self.verified /\ rhs.verified,
     loc |-> sum_options(self.loc, rhs.loc),
     geiger_count |-> sum_options(self.geiger_count, rhs.geiger_count),
     has_custom_build |-> self.has_custom_build \/ rhs.has_custom_build,
     owner_set |-> OwnerSetSetAdd(self.owner_set, rhs.owner_set)]

-----------------------------------------------------------------------------
(* Inputs of the pure operations *)

\* every HashMap with keys among `keys` and values among `values`
MapsOver(keys, values) == UNION {[D -> values] : D \in SUBSET keys}

Locs == {None} \cup {Some(n) : n \in 0..MaxLoc}
GeigerCounts == {None, Some(0), Some(1)}
TrustedIssues == {CountWithTotal(n, t) : n \in {0, 1}, t \in {1}} \cup {CountWithTotal(0, 0)}

BaseAcd ==
    [trust |-> 2, trusted_issues |-> CountWithTotal(0, 0), verified |-> TRUE,
     loc |-> Some(0), geiger_count |-> Some(1), has_custom_build |-> FALSE,
     owner_set |-> OwnerSetSetNew("P1", {"x"})]

\* operands that differ in every field but the owner set
ScalarAcds ==
    [trust : VerificationStatus, trusted_issues : TrustedIssues, verified : BOOLEAN,
     loc : Locs, geiger_count : GeigerCounts, has_custom_build : BOOLEAN,
     owner_set : {OwnerSetSetNew("P1", {"x"})}]

\* operands that differ in the owner set
OwnerAcds ==
    [trust : {0, 2}, trusted_issues : {CountWithTotal(0, 1)}, verified : BOOLEAN,
     loc : {Some(1)}, geiger_count : {None}, has_custom_build : {FALSE},
     owner_set : MapsOver({"P1", "P2"}, {{"x"}, {"y"}}) \ {EmptyOwnerSetSet}]

OwnerSetSets == MapsOver(PackageIds, SUBSET OwnerNames)
OtherOwnerSetSets == MapsOver(PackageIds, {{"x"}, {"y", "z"}})

AccIdle ==
    /\ a = BaseAcd /\ b = BaseAcd /\ c = BaseAcd /\ acc = BaseAcd /\ accStep = 0

OssIdle ==
    /\ oss = EmptyOwnerSetSet /\ other = EmptyOwnerSetSet /\ ounion = EmptyOwnerSetSet
    /\ owners = None /\ groups = None /\ oStep = 0

CmdIdle ==
    /\ events = <<>> /\ scannerOk = TRUE /\ isTty = FALSE /\ termError = FALSE
    /\ command = "idle" /\ pc = "idle"
    /\ deps = <<>> /\ rows = <<>> /\ nb_unclean_digests = 0 /\ nb_unverified = 0
    /\ stdout = <<>> /\ stderr = <<>> /\ cursor = 0 /\ mvps = <<>>
    /\ result = "none" /\ exitCode = None

RollIdle == graph = <<>> /\ own = <<>> /\ memo = <<>>

-----------------------------------------------------------------------------
(* AccumulativeCrateDetails: a + b, then (a + b) + c *)

InitAcc ==
    /\ \/ a \in ScalarAcds /\ b \in ScalarAcds /\ c = BaseAcd
       \/ a \in OwnerAcds /\ b \in OwnerAcds /\ c \in OwnerAcds
    /\ acc = a
    /\ accStep = 0
    /\ OssIdle /\ CmdIdle /\ RollIdle

AccAdd ==
    /\ accStep = 0
    /\ acc' = AccumulativeCrateDetailsAdd(a, b)
    /\ accStep' = 1
    /\ UNCHANGED <<a, b, c, ossVars, cmdVars, rollVars>>

AccAddThird ==
    /\ accStep = 1
    /\ acc' = AccumulativeCrateDetailsAdd(acc, c)
    /\ accStep' = 2
    /\ UNCHANGED <<a, b, c, ossVars, cmdVars, rollVars>>

NextAcc == AccAdd \/ AccAddThird

SpecAcc == InitAcc /\ [][NextAcc]_vars

-----------------------------------------------------------------------------
(* OwnerSetSet: oss + other, oss.to_total_owners(), oss.to_total_distinct_groups() *)

InitOss ==
    /\ oss \in OwnerSetSets
    /\ other \in OtherOwnerSetSets
    /\ ounion = EmptyOwnerSetSet
    /\ owners = None
    /\ groups = None
    /\ oStep = 0
    /\ AccIdle /\ CmdIdle /\ RollIdle

OssAdd ==
    /\ oStep = 0
    /\ ounion' = OwnerSetSetAdd(oss, other)
    /\ oStep' = 1
    /\ UNCHANGED <<oss, other, owners, groups, accVars, cmdVars, rollVars>>

OssTotalOwners ==
    /\ oStep = 1
    /\ \E order \in Orders(DOMAIN oss) : owners' = Some(to_total_owners(oss, order))
    /\ oStep' = 2
    /\ UNCHANGED <<oss, other, ounion, groups, accVars, cmdVars, rollVars>>

OssTotalDistinctGroups ==
    /\ oStep = 2
    /\ \E order \in Orders(DOMAIN oss) :
           groups' = Some(to_total_distinct_groups(oss, order))
    /\ oStep' = 3
    /\ UNCHANGED <<oss, other, ounion, owners, accVars, cmdVars, rollVars>>

NextOss == OssAdd \/ OssTotalOwners \/ OssTotalDistinctGroups

SpecOss == InitOss /\ [][NextOss]_vars

-----------------------------------------------------------------------------
(* Claims about AccumulativeCrateDetails `+` (SpecAcc) *)

\* C1: a + b has trust = min(a.trust, b.trust), trusted_issues = the
\* component-wise sum, verified = a.verified AND b.verified, has_custom_build =
\* a.has_custom_build OR b.has_custom_build, and loc and geiger_count each the
\* sum when both operands are known and None when either is unknown.
C1_CombineFields ==
    accStep = 1 =>
        /\ acc.trust \in {a.trust, b.trust}
        /\ acc.trust <= a.trust /\ acc.trust <= b.trust
        /\ acc.trusted_issues.count = a.trusted_issues.count + b.trusted_issues.count
        /\ acc.trusted_issues.total = a.trusted_issues.total + b.trusted_issues.total
        /\ acc.verified <=> (a.verified /\ b.verified)
        /\ acc.has_custom_build <=> (a.has_custom_build \/ b.has_custom_build)
        /\ (a.loc = None \/ b.loc = None) => acc.loc = None
        /\ (a.loc # None /\ b.loc # None) => acc.loc = <<a.loc[1] + b.loc[1]>>
        /\ (a.geiger_count = None \/ b.geiger_count = None) => acc.geiger_count = None
        /\ (a.geiger_count # None /\ b.geiger_count # None)
              => acc.geiger_count = <<a.geiger_count[1] + b.geiger_count[1]>>

\* an unknown loc added to a known one, a known geiger_count added to a known
\* one, and operands that differ in trust, verified and has_custom_build
C1_Witness ==
    /\ accStep = 1
    /\ a.loc = None /\ b.loc = Some(1) /\ acc.loc = None
    /\ a.geiger_count = Some(1) /\ b.geiger_count = Some(1) /\ acc.geiger_count = Some(2)
    /\ a.trust = 2 /\ b.trust = 1 /\ acc.trust = 1
    /\ a.verified /\ ~b.verified /\ ~acc.verified
    /\ ~a.has_custom_build /\ b.has_custom_build /\ acc.has_custom_build
    /\ acc.trusted_issues = CountWithTotal(1, 2)

\* C2: `+` is commutative and associative on all fields, owner_set included:
\* a + b = b + a and (a + b) + c = a + (b + c).
C2_AssociativeCommutative ==
    /\ accStep = 1 => acc = AccumulativeCrateDetailsAdd(b, a)
    /\ accStep = 2 =>
           acc = AccumulativeCrateDetailsAdd(a, AccumulativeCrateDetailsAdd(b, c))

-----------------------------------------------------------------------------
(* Claims about OwnerSetSet (SpecOss) *)

\* the package keys whose owner set is not contained in the set of another key
NotContained(m, keys) ==
    {p \in keys : ~ \E q \in DOMAIN m \ {p} : m[p] \subseteq m[q]}

\* C3: when two groups have equal owner sets and neither is contained in a
\* third group, to_total_distinct_groups excludes at most one of them, so the
\* pair contributes exactly one to the count ({P1:{x,y}, P2:{y,x}} gives 1).
C3_EqualGroupsOneSurvives ==
    oStep = 3 =>
        \A p, q \in DOMAIN oss :
            (/\ p # q
             /\ oss[p] = oss[q]
             /\ \A r \in DOMAIN oss \ {p, q} : ~ (oss[p] \subseteq oss[r]))
            => Unwrap(groups) = 1 + Cardinality(NotContained(oss, DOMAIN oss \ {p, q}))

\* C4: to_total_distinct_groups is the number of groups not contained in any
\* other group: a group is excluded iff a different package key has an owner set
\* that is a superset of it ({P1:{x,y}, P2:{x}} gives 1, {P1:{x}, P2:{y}} gives 2).
C4_DistinctGroups ==
    oStep = 3 =>
        /\ Unwrap(groups) = Cardinality(NotContained(oss, DOMAIN oss))
        /\ oss = [p \in {"P1", "P2"} |-> IF p = "P1" THEN {"x", "y"} ELSE {"x"}]
              => groups = Some(1)
        /\ oss = [p \in {"P1", "P2"} |-> IF p = "P1" THEN {"x"} ELSE {"y"}]
              => groups = Some(2)

C4_Witness ==
    /\ oStep = 3
    /\ oss = [p \in {"P1", "P2"} |-> IF p = "P1" THEN {"x", "y"} ELSE {"x"}]
    /\ groups = Some(1)

\* C5: oss + other has the union of both key sets as its keys; a key only in oss
\* keeps the set of oss, a key of other has the set of other (which replaces the
\* set of oss on a key of both, it is not unioned with it); the operands are not
\* modified.
C5_UnionRightWins ==
    /\ [](oStep >= 1 =>
            /\ DOMAIN ounion = DOMAIN oss \cup DOMAIN other
            /\ \A p \in DOMAIN other : ounion[p] = other[p]
            /\ \A p \in DOMAIN oss \ DOMAIN other : ounion[p] = oss[p])
    /\ [][oss' = oss /\ other' = other]_vars

\* a key only in oss, a key only in other, and a key of both with different sets
C5_Witness ==
    /\ oStep = 1
    /\ DOMAIN oss = {"P1", "P2"} /\ DOMAIN other = {"P2", "P3"}
    /\ oss["P2"] = {"x", "y"} /\ other["P2"] = {"y", "z"}
    /\ ounion["P2"] = {"y", "z"}
    /\ ounion["P1"] = oss["P1"] /\ ounion["P3"] = other["P3"]

\* C6: to_total_owners is the cardinality of the union of all owner sets; an
\* owner under several packages counts once ({P1:{x,y}, P2:{y,z}} gives 3).
C6_TotalOwners ==
    oStep >= 2 =>
        /\ Unwrap(owners) = Cardinality(UNION {oss[p] : p \in DOMAIN oss})
        /\ oss = [p \in {"P1", "P2"} |-> IF p = "P1" THEN {"x", "y"} ELSE {"y", "z"}]
              => owners = Some(3)

C6_Witness ==
    /\ oStep = 2
    /\ oss = [p \in {"P1", "P2"} |-> IF p = "P1" THEN {"x", "y"} ELSE {"y", "z"}]
    /\ owners = Some(3)

-----------------------------------------------------------------------------
(* CrateStats and the stream the Scanner yields *)

CrateNames == <<"A", "B", "C", "D">>
PubIds == {"R1", "R2", "R3"}

\* Result<Option<CrateDetails>>: Err(_), Ok(None), Ok(Some(d))
DetailsErr == [ok |-> FALSE, val |-> None]
DetailsNone == [ok |-> TRUE, val |-> None]
DetailsSome(d) == [ok |-> TRUE, val |-> Some(d)]

\* the rollup a CrateDetails of the stream carries: only `verified` (and the
\* trust it is derived from) differs between entries
StreamAcd(verified) ==
    [trust |-> IF verified THEN 2 ELSE 1, trusted_issues |-> CountWithTotal(0, 0),
     verified |-> verified, loc |-> Some(0), geiger_count |-> Some(0),
     has_custom_build |-> FALSE, owner_set |-> OwnerSetSetNew("P1", {"x"})]

CrateDetails(unclean_digest, trusted_reviewers, verified) ==
    [unclean_digest |-> unclean_digest, trusted_reviewers |-> trusted_reviewers,
     accumulative |-> StreamAcd(verified)]

CrateStats(id, details) == [info |-> [id |-> id], details |-> details]

\* CrateStats::details
details(stats) ==
    IF stats.details.ok /\ IsSome(stats.details.val) THEN stats.details.val ELSE None

\* CrateStats::has_details
has_details(stats) == IsSome(details(stats))

is_digest_unclean_any_details(stats) == has_details(stats)

\* CrateStats::is_digest_unclean
is_digest_unclean(stats) ==
    IF IsSome(details(stats)) THEN Unwrap(details(stats)).unclean_digest ELSE FALSE

\* the streams of n entries whose details are among `ds`; the i-th entry is the
\* package CrateNames[i]
StreamsOf(n, ds) ==
    {[i \in 1..n |-> CrateStats(CrateNames[i], f[i])] : f \in [1..n -> ds]}

Streams(ds) == UNION {StreamsOf(n, ds) : n \in 0..MaxDeps}

VerifyDetails ==
    {DetailsErr, DetailsNone}
    \cup {DetailsSome(CrateDetails(u, {}, v)) : u \in BOOLEAN, v \in BOOLEAN}

MvpsDetails ==
    {DetailsErr, DetailsNone}
    \cup {DetailsSome(CrateDetails(FALSE, rs, TRUE)) : rs \in SUBSET PubIds}

-----------------------------------------------------------------------------
(* verify_deps, then main *)

InitVerify ==
    /\ events \in Streams(VerifyDetails)
    /\ scannerOk \in BOOLEAN
    /\ isTty \in BOOLEAN
    /\ termError = FALSE
    /\ command = "verify"
    /\ pc = "scanner"
    /\ deps = <<>> /\ rows = <<>>
    /\ nb_unclean_digests = 0 /\ nb_unverified = 0
    /\ stdout = <<>> /\ stderr = <<>>
    /\ cursor = 0
    /\ mvps = <<>>
    /\ result = "none"
    /\ exitCode = None
    /\ AccIdle /\ OssIdle /\ RollIdle

\* let scanner = scan::Scanner::new(&args)?; let events = scanner.run();
\* then the header, only on a terminal
VerifyScanner ==
    /\ command = "verify" /\ pc = "scanner"
    /\ IF scannerOk
       THEN /\ pc' = "collect"
            /\ cursor' = 1
            /\ stdout' = IF isTty THEN Append(stdout, <<"header">>) ELSE stdout
            /\ UNCHANGED result
       ELSE /\ pc' = "returned"
            /\ result' = "Err"
            /\ UNCHANGED <<cursor, stdout>>
    /\ UNCHANGED <<events, scannerOk, isTty, termError, command, deps, rows, nb_unclean_digests,
                   nb_unverified, stderr, mvps, exitCode, accVars, ossVars, rollVars>>

VerifyPrintDepFailFast ==
    /\ command = "verify" /\ pc = "collect"
    /\ cursor <= Len(events)
    /\ rows' = Append(rows, events[cursor].info.id)
    /\ IF events[cursor].details.ok
       THEN /\ deps' = Append(deps, events[cursor])
            /\ cursor' = cursor + 1
            /\ UNCHANGED <<pc, result, termError>>
       ELSE /\ pc' = "returned"
            /\ result' = "Err"
            /\ UNCHANGED <<deps, cursor, termError>>
    /\ UNCHANGED <<events, scannerOk, isTty, command, nb_unclean_digests,
                   nb_unverified, stdout, stderr, mvps, exitCode, accVars, ossVars, rollVars>>

\* one step of events.into_iter().map(print_dep(..)?; Ok(stats)).collect()?:
\* print_dep writes the row, or fails and verify_deps returns the error
VerifyPrintDep ==
    /\ command = "verify" /\ pc = "collect"
    /\ cursor <= Len(events)
    /\ rows' = Append(rows, events[cursor].info.id)
    /\ \E written \in BOOLEAN :
          IF written
          THEN /\ deps' = Append(deps, events[cursor])
               /\ cursor' = cursor + 1
               /\ UNCHANGED <<pc, result, termError>>
          ELSE /\ pc' = "returned"
               /\ result' = "Err"
               /\ termError' = TRUE
               /\ UNCHANGED <<deps, cursor>>
    /\ UNCHANGED <<events, scannerOk, isTty, command, nb_unclean_digests,
                   nb_unverified, stdout, stderr, mvps, exitCode, accVars, ossVars, rollVars>>

\* the stream is exhausted: let mut nb_unclean_digests = 0; let mut nb_unverified = 0;
VerifyCollected ==
    /\ command = "verify" /\ pc = "collect"
    /\ cursor > Len(events)
    /\ pc' = "count"
    /\ cursor' = 1
    /\ nb_unclean_digests' = 0
    /\ nb_unverified' = 0
    /\ UNCHANGED <<events, scannerOk, isTty, termError, command, deps, rows, stdout, stderr,
                   mvps, result, exitCode, accVars, ossVars, rollVars>>

\* one iteration of `for dep in &deps`
VerifyCount ==
    /\ command = "verify" /\ pc = "count"
    /\ cursor <= Len(deps)
    /\ LET dep == deps[cursor] IN
          IF is_digest_unclean(dep)
          THEN LET d == Unwrap(details(dep)) IN
               /\ nb_unclean_digests' =
                      IF d.unclean_digest THEN nb_unclean_digests + 1
                      ELSE nb_unclean_digests
               /\ nb_unverified' =
                      IF ~d.accumulative.verified THEN nb_unverified + 1
                      ELSE nb_unverified
          ELSE UNCHANGED <<nb_unclean_digests, nb_unverified>>
    /\ cursor' = cursor + 1
    /\ UNCHANGED <<events, scannerOk, isTty, termError, command, pc, deps, rows, stdout, stderr,
                   mvps, result, exitCode, accVars, ossVars, rollVars>>

\* if nb_unclean_digests > 0 { println!("{} unclean package{} detected. ..") .. }
VerifyNotice ==
    /\ command = "verify" /\ pc = "count"
    /\ cursor > Len(deps)
    /\ IF nb_unclean_digests > 0
       THEN /\ stdout' = Append(stdout, <<"unclean", nb_unclean_digests>>)
            /\ pc' = "list"
            /\ cursor' = 1
       ELSE /\ pc' = "verdict"
            /\ UNCHANGED <<stdout, cursor>>
    /\ UNCHANGED <<events, scannerOk, isTty, termError, command, deps, rows, nb_unclean_digests,
                   nb_unverified, stderr, mvps, result, exitCode, accVars, ossVars, rollVars>>

VerifyListUncleanAll ==
    /\ command = "verify" /\ pc = "list"
    /\ cursor <= Len(deps)
    /\ stderr' = Append(stderr, deps[cursor].info.id)
    /\ cursor' = cursor + 1
    /\ UNCHANGED <<pc, result, termError>>
    /\ UNCHANGED <<events, scannerOk, isTty, command, deps, rows, nb_unclean_digests,
                   nb_unverified, stdout, mvps, exitCode, accVars, ossVars, rollVars>>

\* one iteration of `for dep in deps`: term.eprint("Unclean crate {} {}\n")? for
\* an unclean dep; the write may fail and verify_deps then returns the error
VerifyListUnclean ==
    /\ command = "verify" /\ pc = "list"
    /\ cursor <= Len(deps)
    /\ IF is_digest_unclean(deps[cursor])
       THEN \E written \in BOOLEAN :
               IF written
               THEN /\ stderr' = Append(stderr, deps[cursor].info.id)
                    /\ cursor' = cursor + 1
                    /\ UNCHANGED <<pc, result, termError>>
               ELSE /\ pc' = "returned"
                    /\ result' = "Err"
                    /\ termError' = TRUE
                    /\ UNCHANGED <<stderr, cursor>>
       ELSE /\ cursor' = cursor + 1
            /\ UNCHANGED <<stderr, pc, result, termError>>
    /\ UNCHANGED <<events, scannerOk, isTty, command, deps, rows, nb_unclean_digests,
                   nb_unverified, stdout, mvps, exitCode, accVars, ossVars, rollVars>>

VerifyListed ==
    /\ command = "verify" /\ pc = "list"
    /\ cursor > Len(deps)
    /\ pc' = "verdict"
    /\ UNCHANGED <<events, scannerOk, isTty, termError, command, deps, rows, nb_unclean_digests,
                   nb_unverified, stdout, stderr, cursor, mvps, result, exitCode,
                   accVars, ossVars, rollVars>>

\* Ok(if nb_unverified == 0 { Success } else { VerificationFailed })
Verdict(unverified) == IF unverified = 0 THEN "Success" ELSE "VerificationFailed"

VerifyVerdict ==
    /\ command = "verify" /\ pc = "verdict"
    /\ result' = Verdict(nb_unverified)
    /\ pc' = "returned"
    /\ UNCHANGED <<events, scannerOk, isTty, termError, command, deps, rows, nb_unclean_digests,
                   nb_unverified, stdout, stderr, cursor, mvps, exitCode, accVars,
                   ossVars, rollVars>>

\* main: match run_command(command)
ExitCodeOf(res) ==
    IF res = "Success" THEN 0
    ELSE IF res = "VerificationFailed" THEN -1
    ELSE -2

Main ==
    /\ pc = "returned"
    /\ exitCode' = Some(ExitCodeOf(result))
    /\ pc' = "exited"
    /\ UNCHANGED <<events, scannerOk, isTty, termError, command, deps, rows, nb_unclean_digests,
                   nb_unverified, stdout, stderr, cursor, mvps, result, accVars,
                   ossVars, rollVars>>

NextVerify ==
    \/ VerifyScanner \/ VerifyPrintDep \/ VerifyCollected \/ VerifyCount
    \/ VerifyNotice \/ VerifyListUnclean \/ VerifyListed \/ VerifyVerdict \/ Main

SpecVerify == InitVerify /\ [][NextVerify]_vars

-----------------------------------------------------------------------------
(* crate_mvps, then main *)

InitMvps ==
    /\ events \in Streams(MvpsDetails)
    /\ scannerOk \in BOOLEAN
    /\ isTty = FALSE
    /\ termError = FALSE
    /\ command = "mvps"
    /\ pc = "scanner"
    /\ deps = <<>> /\ rows = <<>>
    /\ nb_unclean_digests = 0 /\ nb_unverified = 0
    /\ stdout = <<>> /\ stderr = <<>>
    /\ cursor = 0
    /\ mvps = <<>>
    /\ result = "none"
    /\ exitCode = None
    /\ AccIdle /\ OssIdle /\ RollIdle

\* let scanner = scan::Scanner::new(&args)?; let events = scanner.run();
\* let mut mvps = HashMap::new();
MvpsScanner ==
    /\ command = "mvps" /\ pc = "scanner"
    /\ IF scannerOk
       THEN /\ pc' = "tally"
            /\ cursor' = 1
            /\ mvps' = <<>>
            /\ UNCHANGED result
       ELSE /\ pc' = "returned"
            /\ result' = "Err"
            /\ UNCHANGED <<cursor, mvps>>
    /\ UNCHANGED <<events, scannerOk, isTty, termError, command, deps, rows,
                   nb_unclean_digests, nb_unverified, stdout, stderr, exitCode,
                   accVars, ossVars, rollVars>>

\* *mvps.entry(reviewer.to_owned()).or_default() += 1, for every reviewer
RECURSIVE CountReviewers(_, _)
CountReviewers(m, reviewers) ==
    IF reviewers = {} THEN m
    ELSE LET reviewer == CHOOSE r \in reviewers : TRUE
             count == IF reviewer \in DOMAIN m THEN m[reviewer] ELSE 0
         IN  CountReviewers(MapInsert(m, reviewer, count + 1), reviewers \ {reviewer})

\* one iteration of `for stats in events`: stats.details? returns the error of
\* an Err, .expect("some") panics on Ok(None)
MvpsTally ==
    /\ command = "mvps" /\ pc = "tally"
    /\ cursor <= Len(events)
    /\ LET stats == events[cursor] IN
          IF ~stats.details.ok
          THEN /\ pc' = "returned"
               /\ result' = "Err"
               /\ UNCHANGED <<cursor, mvps, exitCode>>
          ELSE IF ~IsSome(stats.details.val)
          THEN /\ pc' = "panicked"
               /\ exitCode' = Some(101)
               /\ UNCHANGED <<cursor, mvps, result>>
          ELSE /\ mvps' = CountReviewers(mvps,
                                         Unwrap(stats.details.val).trusted_reviewers)
               /\ cursor' = cursor + 1
               /\ UNCHANGED <<pc, result, exitCode>>
    /\ UNCHANGED <<events, scannerOk, isTty, termError, command, deps, rows,
                   nb_unclean_digests, nb_unverified, stdout, stderr, accVars, ossVars, rollVars>>

\* where a stable sort by |a, b| a.1.cmp(&b.1).reverse() puts x among the
\* elements before it: after every element whose count is not smaller
RECURSIVE InsertByCount(_, _)
InsertByCount(sorted, x) ==
    IF sorted = <<>> THEN <<x>>
    ELSE IF Head(sorted)[2] >= x[2]
         THEN <<Head(sorted)>> \o InsertByCount(Tail(sorted), x)
         ELSE <<x>> \o sorted

RECURSIVE SortInto(_, _)
SortInto(sorted, vec) ==
    IF vec = <<>> THEN sorted
    ELSE SortInto(InsertByCount(sorted, Head(vec)), Tail(vec))

sort_by_count_unsorted(vec) == vec

\* mvps.sort_by(|a, b| a.1.cmp(&b.1).reverse())
sort_by_count(vec) == SortInto(<<>>, vec)

\* the stream is exhausted: the map is collected into a Vec (in the map's
\* iteration order), sorted, and printed one line per entry; run_command then
\* returns Ok(CommandExitStatus::Success)
MvpsRank ==
    /\ command = "mvps" /\ pc = "tally"
    /\ cursor > Len(events)
    /\ \E order \in Orders(DOMAIN mvps) :
          LET vec == [i \in DOMAIN order |-> <<order[i], mvps[order[i]]>>]
              sorted == sort_by_count(vec)
          IN  stdout' = [i \in DOMAIN sorted |-> <<sorted[i][2], sorted[i][1]>>]
    /\ result' = "Success"
    /\ pc' = "returned"
    /\ UNCHANGED <<events, scannerOk, isTty, termError, command, deps, rows,
                   nb_unclean_digests, nb_unverified, stderr, cursor, mvps, exitCode,
                   accVars, ossVars, rollVars>>

NextMvps == MvpsScanner \/ MvpsTally \/ MvpsRank \/ Main

SpecMvps == InitMvps /\ [][NextMvps]_vars

-----------------------------------------------------------------------------
(* Claims about verify_deps (SpecVerify) *)

\* verify_deps ran to its end: the Scanner was constructed and no write to the
\* terminal failed, so the only return left is the verdict of lines 354-358
VerifyReturned ==
    /\ command = "verify" /\ pc \in {"returned", "exited"}
    /\ scannerOk /\ ~termError

\* the counting loop of verify_deps has run over the whole stream
VerifyCounted ==
    /\ command = "verify" /\ scannerOk
    /\ \/ pc \in {"list", "verdict"}
       \/ pc \in {"returned", "exited"} /\ Len(deps) = Len(events)

Detailed(i) == events[i].details.ok /\ events[i].details.val # <<>>
UncleanEntries ==
    {i \in DOMAIN events : Detailed(i) /\ events[i].details.val[1].unclean_digest}
UnverifiedEntries ==
    {i \in DOMAIN events : Detailed(i) /\ ~events[i].details.val[1].accumulative.verified}

\* the rollup of a chain A -> B -> C in which only C is unverified on its own:
\* each node's accumulative is its own facts + the accumulative of its dependency
RECURSIVE ChainRollup(_)
ChainRollup(i) ==
    IF i = 3 THEN StreamAcd(FALSE)
    ELSE AccumulativeCrateDetailsAdd(StreamAcd(TRUE), ChainRollup(i + 1))

\* what the Scanner yields for that chain when B alone has an unclean digest
ChainStream ==
    [i \in 1..3 |->
        CrateStats(CrateNames[i],
                   DetailsSome([unclean_digest |-> (i = 2), trusted_reviewers |-> {},
                                accumulative |-> ChainRollup(i)]))]

\* C7: after the whole stream is consumed, the unclean counter is the number of
\* entries with details and unclean_digest, the unverified counter the number of
\* those whose accumulative.verified is false; verify_deps returns Success iff
\* the unverified counter is zero and VerificationFailed (not Err) otherwise.
\* For the chain A->B->C with B unclean and C unverified: one unclean package,
\* VerificationFailed.
C7_VerifyCounters ==
    /\ VerifyCounted =>
          /\ nb_unclean_digests = Cardinality(UncleanEntries)
          /\ nb_unverified = Cardinality(UncleanEntries \cap UnverifiedEntries)
    /\ VerifyReturned =>
          /\ nb_unverified = 0 => result = "Success"
          /\ nb_unverified # 0 => result = "VerificationFailed"
          /\ events = ChainStream =>
                /\ nb_unclean_digests = 1
                /\ nb_unverified # 0
                /\ result = "VerificationFailed"
                /\ stderr = <<"B">>

C7_Witness ==
    /\ VerifyReturned
    /\ events = ChainStream
    /\ nb_unclean_digests = 1
    /\ result = "VerificationFailed"

\* C8: with complete data and at least one entry whose accumulative.verified is
\* false (unclean or not), verify_deps returns VerificationFailed, which main
\* maps to an exit code of its own; it returns Success only when every entry
\* with details is verified.
C8_UnverifiedFails ==
    VerifyReturned =>
        /\ ((\A i \in DOMAIN events : Detailed(i)) /\ UnverifiedEntries # {})
              => result = "VerificationFailed"
        /\ result = "Success" => UnverifiedEntries = {}
        /\ ExitCodeOf("VerificationFailed")
              \notin {ExitCodeOf("Success"), ExitCodeOf("Err")}

-----------------------------------------------------------------------------
(* Claims about crate_mvps (SpecMvps) *)

\* the number of entries whose trusted_reviewers holds reviewer r
Votes(r) ==
    Cardinality({i \in DOMAIN events :
        Detailed(i) /\ r \in events[i].details.val[1].trusted_reviewers})

MvpsFinished == command = "mvps" /\ pc \in {"returned", "exited", "panicked"} /\ scannerOk

\* C9: on a stream in which every entry has details, crate_mvps lists exactly
\* the identities found in some trusted_reviewers set, each once with the number
\* of entries that hold it, counts non-increasing; two packages trusted only by
\* R give the single line (R, 2).
C9_MvpsRanking ==
    (MvpsFinished /\ \A i \in DOMAIN events : Detailed(i)) =>
        /\ result = "Success"
        /\ {stdout[i][2] : i \in DOMAIN stdout} = {r \in PubIds : Votes(r) >= 1}
        /\ Len(stdout) = Cardinality({r \in PubIds : Votes(r) >= 1})
        /\ \A i \in DOMAIN stdout : stdout[i][1] = Votes(stdout[i][2])
        /\ \A i, j \in DOMAIN stdout : i < j => stdout[i][1] >= stdout[j][1]
        /\ (/\ Len(events) = 2
            /\ \A i \in DOMAIN events :
                   events[i].details.val[1].trusted_reviewers = {"R1"})
              => stdout = << <<2, "R1">> >>

\* three reviewers with three different counts over three packages
C9_Witness ==
    /\ MvpsFinished
    /\ Len(events) = 3
    /\ \A i \in DOMAIN events : Detailed(i)
    /\ events[1].details.val[1].trusted_reviewers = {"R1"}
    /\ events[2].details.val[1].trusted_reviewers = {"R1", "R2"}
    /\ events[3].details.val[1].trusted_reviewers = {"R1", "R2", "R3"}
    /\ stdout = << <<3, "R1">>, <<2, "R2">>, <<1, "R3">> >>

\* the first entry of the stream without details
FirstMissing ==
    CHOOSE i \in DOMAIN events : ~Detailed(i) /\ \A j \in 1..(i - 1) : Detailed(j)

\* C10: at the first entry whose details is Err or Ok(None), crate_mvps returns
\* an Err (it does not panic), prints no ranking and consumes no later entry.
C10_MvpsFailsFast ==
    (MvpsFinished /\ \E i \in DOMAIN events : ~Detailed(i)) =>
        /\ pc # "panicked"
        /\ result = "Err"
        /\ stdout = <<>>
        /\ cursor = FirstMissing

-----------------------------------------------------------------------------
(* Claims about the order of verify_deps' output (SpecVerify) *)

\* the ids of the stream, in the order the Scanner yields them
EventIds == [i \in DOMAIN events |-> events[i].info.id]

\* C11: on the verify path an entry whose details is an error does not abort
\* consumption: every entry the Scanner yields, before and after the failing one,
\* is handed to print_dep exactly once and in Scanner order, and all of them have
\* been examined for the counts when the verdict is produced.
C11_VerifyConsumesAll ==
    command = "verify" =>
        /\ Len(rows) <= Len(events)
        /\ \A i \in DOMAIN rows : rows[i] = EventIds[i]
        /\ (~termError /\ (pc \in {"count", "list", "verdict"} \/ VerifyReturned))
              => rows = EventIds /\ deps = events
        /\ (pc = "verdict" \/ VerifyReturned)
              => /\ rows = EventIds
                 /\ cursor = Len(events) + 1
                 /\ nb_unclean_digests = Cardinality(UncleanEntries)

\* the second of three entries has details = Err, the third is unclean and counted
C11_Witness ==
    /\ VerifyReturned
    /\ Len(events) = 3
    /\ ~events[2].details.ok
    /\ 3 \in UncleanEntries
    /\ rows = <<"A", "B", "C">>
    /\ nb_unclean_digests >= 1

-----------------------------------------------------------------------------
(* Tree rollup: accumulative = accumulative_own + the memoized accumulative of *)
(* every distinct direct dependency                                           *)

\* the dependency graphs over CrateNames in which a package depends only on
\* packages later in CrateNames, so every graph is a DAG
DependencyGraphs ==
    {g \in [{CrateNames[i] : i \in DOMAIN CrateNames}
                -> SUBSET {CrateNames[i] : i \in DOMAIN CrateNames}] :
        \A i \in DOMAIN CrateNames :
            g[CrateNames[i]] \subseteq
                {CrateNames[j] : j \in (i + 1)..Len(CrateNames)}}

\* accumulative_own of package n with the given lines of code
OwnAcd(n, loc) ==
    [trust |-> 2, trusted_issues |-> CountWithTotal(1, 2), verified |-> TRUE,
     loc |-> loc, geiger_count |-> Some(1), has_custom_build |-> FALSE,
     owner_set |-> OwnerSetSetNew(n, {"x"})]

\* accu + the finalized accumulative of every dependency of `order`
RECURSIVE AddAll(_, _, _)
AddAll(accu, finalized, order) ==
    IF order = <<>> THEN accu
    ELSE AddAll(AccumulativeCrateDetailsAdd(accu, finalized[Head(order)]),
                finalized, Tail(order))

InitRollup ==
    /\ graph \in DependencyGraphs
    /\ own \in {[n \in DOMAIN f |-> OwnAcd(n, f[n])] :
                   f \in [{CrateNames[i] : i \in DOMAIN CrateNames} -> Locs]}
    /\ memo = <<>>
    /\ AccIdle /\ OssIdle /\ CmdIdle

\* a package all of whose direct dependencies are finalized is finalized itself
RollupNode ==
    /\ \E n \in DOMAIN graph \ DOMAIN memo :
          /\ graph[n] \subseteq DOMAIN memo
          /\ \E order \in Orders(graph[n]) :
                memo' = MapInsert(memo, n, AddAll(own[n], memo, order))
    /\ UNCHANGED <<graph, own, accVars, ossVars, cmdVars>>

NextRollup == RollupNode

SpecRollup == InitRollup /\ [][NextRollup]_vars

-----------------------------------------------------------------------------
(* Claims about the rollup (SpecRollup) *)

\* package n and its transitive dependencies
RECURSIVE Reach(_)
Reach(n) == {n} \cup UNION {Reach(d) : d \in graph[n]}

\* the number of distinct dependency paths from n to m
RECURSIVE Paths(_, _)
RECURSIVE PathsVia(_, _)
Paths(n, m) == IF n = m THEN 1 ELSE PathsVia(graph[n], m)
PathsVia(ds, m) ==
    IF ds = {} THEN 0
    ELSE LET d == CHOOSE x \in ds : TRUE IN Paths(d, m) + PathsVia(ds \ {d}, m)

OwnCount(m, field) ==
    CASE field = "loc" -> own[m].loc[1]
      [] field = "geiger_count" -> own[m].geiger_count[1]
      [] field = "count" -> own[m].trusted_issues.count
      [] field = "total" -> own[m].trusted_issues.total

\* the sum of a field over the packages of S, each taken once or once per path
\* from n
RECURSIVE SumOver(_, _, _, _)
SumOver(n, S, field, perPath) ==
    IF S = {} THEN 0
    ELSE LET m == CHOOSE x \in S : TRUE IN
         (IF perPath THEN Paths(n, m) ELSE 1) * OwnCount(m, field)
             + SumOver(n, S \ {m}, field, perPath)

LocKnown(n) == \A m \in Reach(n) : own[m].loc # None

RollupSums(n, perPath) ==
    /\ LocKnown(n) => memo[n].loc = Some(SumOver(n, Reach(n), "loc", perPath))
    /\ memo[n].geiger_count = Some(SumOver(n, Reach(n), "geiger_count", perPath))
    /\ memo[n].trusted_issues.count = SumOver(n, Reach(n), "count", perPath)
    /\ memo[n].trusted_issues.total = SumOver(n, Reach(n), "total", perPath)

\* C12: under the rollup rule the summed fields of a node's rollup (loc,
\* geiger_count, trusted_issues) count every distinct transitive dependency
\* exactly once, also in a DAG where a sub-dependency is reachable through more
\* than one path (the diamond A->B, A->C, B->D, C->D).
C12_CountedOnce == \A n \in DOMAIN memo : RollupSums(n, FALSE)

\* what the rule does compute: the summed fields count every transitive
\* dependency once per distinct dependency path that leads to it, so exactly once
\* when every dependency is reachable through one path only; an unknown loc
\* anywhere below makes loc unknown; the owner_set holds every reachable package
\* exactly once.
RollupCountsPerPath ==
    \A n \in DOMAIN memo :
        /\ RollupSums(n, TRUE)
        /\ (\A m \in Reach(n) : Paths(n, m) = 1) => RollupSums(n, FALSE)
        /\ ~LocKnown(n) => memo[n].loc = None
        /\ DOMAIN memo[n].owner_set = Reach(n)

Diamond ==
    [n \in {"A", "B", "C", "D"} |->
        CASE n = "A" -> {"B", "C"} [] n = "B" -> {"D"} [] n = "C" -> {"D"}
          [] n = "D" -> {}]

\* the diamond with one line of code in every package: A's rollup has 5 lines,
\* the shared D counted through B and through C
DiamondCountsTwice ==
    /\ graph = Diamond
    /\ \A n \in DOMAIN own : own[n].loc = Some(1)
    /\ "A" \in DOMAIN memo
    /\ memo["A"].loc = Some(5)
    /\ memo["A"].geiger_count = Some(5)
    /\ DOMAIN memo["A"].owner_set = {"A", "B", "C", "D"}

-----------------------------------------------------------------------------
(* Claims about the unclean notice and the counters (SpecVerify) *)

\* how many times the remediation notice has been printed
NoticeCount == Cardinality({i \in DOMAIN stdout : stdout[i][1] = "unclean"})

\* the ids of the unclean entries among the first k, in Scanner order
RECURSIVE UncleanIdsUpTo(_)
UncleanIdsUpTo(k) ==
    IF k = 0 THEN <<>>
    ELSE IF k \in UncleanEntries THEN Append(UncleanIdsUpTo(k - 1), EventIds[k])
         ELSE UncleanIdsUpTo(k - 1)

IsPrefix(s, t) == Len(s) <= Len(t) /\ \A i \in DOMAIN s : s[i] = t[i]

\* C13: the remediation notice is emitted exactly once iff the unclean counter
\* is nonzero, only after all rows have been printed, and is followed by one
\* line per unclean entry: each unclean entry once, only unclean entries, in
\* Scanner order; with a zero counter neither the notice nor a line is emitted.
C13_UncleanNotice ==
    command = "verify" =>
        /\ NoticeCount <= 1
        /\ NoticeCount = 1 =>
              /\ rows = EventIds
              /\ nb_unclean_digests > 0
              /\ stdout[Len(stdout)] = <<"unclean", nb_unclean_digests>>
        /\ IsPrefix(stderr, UncleanIdsUpTo(Len(events)))
        /\ stderr # <<>> => NoticeCount = 1
        /\ (pc = "verdict" \/ VerifyReturned) =>
              /\ NoticeCount = 1 <=> nb_unclean_digests > 0
              /\ stderr = UncleanIdsUpTo(Len(events))
              /\ Len(stderr) = nb_unclean_digests
              /\ nb_unclean_digests = 0 => NoticeCount = 0 /\ stderr = <<>>

\* the first and the third of three entries are unclean, the second is not
C13_Witness ==
    /\ VerifyReturned
    /\ Len(events) = 3
    /\ UncleanEntries = {1, 3}
    /\ Detailed(2)
    /\ stdout[Len(stdout)] = <<"unclean", 2>>
    /\ stderr = <<"A", "C">>

\* C14: an entry whose details is Err or Ok(None) is never counted as unclean
\* nor as unverified, and the unverified counter never exceeds the unclean
\* counter; so a stream whose fact-gathering failed for every entry, or in which
\* no entry has an unclean digest, makes verify_deps return Success.
C14_OnlyUncleanCounted ==
    command = "verify" =>
        /\ nb_unverified <= nb_unclean_digests
        /\ pc = "count" =>
              /\ nb_unclean_digests
                    = Cardinality(UncleanEntries \cap 1..(cursor - 1))
              /\ nb_unverified
                    = Cardinality(UncleanEntries \cap UnverifiedEntries
                                      \cap 1..(cursor - 1))
        /\ (VerifyReturned
            /\ ((\A i \in DOMAIN events : ~Detailed(i)) \/ UncleanEntries = {}))
              => /\ nb_unclean_digests = 0
                 /\ nb_unverified = 0
                 /\ result = "Success"

\* fact-gathering failed for all three entries, through Err and through Ok(None)
C14_Witness ==
    /\ VerifyReturned
    /\ Len(events) = 3
    /\ \A i \in DOMAIN events : ~Detailed(i)
    /\ \E i, j \in DOMAIN events : ~events[i].details.ok /\ events[j].details.ok
    /\ result = "Success"

====
